---- MODULE Spec2Model ----
(***************************************************************************)
(* Model of the authenticated HTTP client of the ZTE modem integration     *)
(* (custom_components/zte_modem/api.py): one ZTEModemAPI instance, its     *)
(* _logged_in flag, its asyncio.Lock, and a set of tasks calling           *)
(* _make_request concurrently.  One action is the code that runs between   *)
(* two await points of one task (asyncio runs it without preemption).      *)
(***************************************************************************)
EXTENDS Integers, Sequences, FiniteSets, TLC

\* ---------------------------------------------------------------- bounds
NumTasks == 2
MaxCalls == 2
MaxErrLen == 4       \* longest error-type string tried
MaxCells == 3        \* most cells in a LAN table tried
MaxRounds == 2       \* runs of each operation of the integration
NumEntries == 2      \* config entries of the integration
MaxSvcCalls == 2     \* calls of the restart service

Tasks == 1..NumTasks

\* ------------------------------------------------------ the modem's answers
\* status codes the modem answers a login POST with (302 is the redirect)
LoginStatuses == {302, 200, 401}
\* bodies of a login answer: with or without the device-busy string
\* of line 115
LoginBodies == {"busy", "other"}
\* status codes of a data request
DataStatuses == {200, 500}
\* bodies of a data answer: the page asked for, or the login form
DataBodies == {"page", "login_form"}

VARIABLES
    logged_in,     \* self._logged_in
    locked,        \* self._request_lock._locked
    waiters,       \* self._request_lock._waiters (tasks, FIFO)
    woken,         \* waiters whose future has its result set
    pc,            \* the await point each task is suspended at
    calls,         \* number of _make_request calls started on this client
    resp,          \* the response object the task holds inside the call
    ret,           \* what the last call handed to its caller
    sends,         \* data requests sent by the task's current/last call
    logins,        \* login POSTs sent by the task's current/last call
    lastLogin,     \* kind of the last login answer seen by the call
    loginPosts,    \* login POSTs sent on this client, in total
    login302,      \* login POSTs answered 302
    loginFailed,   \* login POSTs answered with another status
    loginAborted,  \* login POSTs that ended in an exception or cancellation
    markerHits,    \* responses in which the login form was detected
    since302       \* a login POST got 302 after the flag was last cleared

vars == <<logged_in, locked, waiters, woken, pc, calls, resp, ret, sends,
          logins, lastLogin, loginPosts, login302, loginFailed, loginAborted,
          markerHits, since302>>

\* the page handed to one of the extraction routines, and what it returned
VARIABLES
    fin,           \* the routine and the page text it is applied to
    fout           \* the value the routine returned

pureVars == <<fin, fout>>

\* the operations of the integration, each on a client of its own
VARIABLES
    ops            \* per operation: where it is, its client, what it sent and got

\* the host side: config entries, hass.data[DOMAIN], the service registry
VARIABLES
    reg            \* stage of each entry, stored coordinators, the service

farVars == <<pureVars, ops, reg>>
allVars == <<vars, farVars>>

lockVars == <<locked, waiters, woken>>
histVars == <<loginPosts, login302, loginFailed, loginAborted, markerHits>>

\* ------------------------------------------------------------ await points
LoginPcs   == {"login_post", "login_text", "relogin_post", "relogin_text"}
DataPcs    == {"send", "read_text", "resend"}
InFlight   == LoginPcs \cup DataPcs
AwaitPcs   == InFlight \cup {"wait_lock"}

NoResp == [status |-> 0, body |-> "none", cached |-> FALSE]
NoRet  == [kind |-> "none", status |-> 0, body |-> "none", cached |-> FALSE,
           retry |-> FALSE, msg |-> "none", read |-> "none"]

\* ------------------------------------------------------------- pure parts
\* _login, line 91: the early return
AlreadyLoggedInNever(flag) == FALSE
AlreadyLoggedIn(flag) == flag

\* _login, lines 110-111: the flag after a login answer
FlagAfterLoginNever(flag, status) == flag
FlagAfterLoginOn200(flag, status) == IF status \in {302, 200} THEN TRUE ELSE flag
FlagAfterLogin(flag, status) == IF status = 302 THEN TRUE ELSE flag

\* _login, lines 110-119: the value returned for a login answer
LoginReturnTrue(status, body) == TRUE
LoginReturn(status, body) ==
    IF status = 302 THEN TRUE
    ELSE IF body = "busy" THEN FALSE
    ELSE FALSE

\* _make_request, lines 66 and 82: the error raised when _login is false
\* (the two messages of the source, in English)
AuthError(stage) ==
    [NoRet EXCEPT !.kind = "ZTEModemAPIError",
                  !.msg = IF stage = "login" THEN "login failed"
                          ELSE "re-login failed"]

\* _make_request, lines 75-77: is the response a served login form
IsExpired(r) == r.status = 200 /\ r.body = "login_form"

\* asyncio.Lock.acquire, the fast path taken at line 63
CanAcquireAlways == TRUE
CanAcquire == ~locked /\ waiters = <<>>

\* asyncio.Lock._wake_up_first, run by release at the end of line 63's block
WakeUpNone(ws, wk) == wk
WakeUpFirst(ws, wk) == IF ws = <<>> THEN wk ELSE wk \cup {Head(ws)}

\* get_optical_info lines 172-176 (and the same lines of get_device_info,
\* get_lan_info, restart_device): what the caller gets from the response.
\* The response reaches the caller after its async with block (line 73 or
\* 84) has released it: text() then yields the body only if it was read, and
\* so cached, inside the block (line 76); on a released unread response the
\* read raises ClientConnectionError.
CallerRead(r) ==
    IF r.status # 200 THEN "no_data"
    ELSE IF r.cached THEN "text"
    ELSE "ClientConnectionError"

\* the response as handed to the caller once the async with block is left
Returned(r, isRetry) ==
    [NoRet EXCEPT !.kind = "response", !.status = r.status, !.body = r.body,
                  !.cached = r.cached, !.retry = isRetry, !.read = CallerRead(r)]

RemoveTask(ws, t) == SelectSeq(ws, LAMBDA x : x # t)

Init ==
    /\ logged_in = FALSE
    /\ locked = FALSE
    /\ waiters = <<>>
    /\ woken = {}
    /\ pc = [t \in Tasks |-> "idle"]
    /\ calls = 0
    /\ resp = [t \in Tasks |-> NoResp]
    /\ ret = [t \in Tasks |-> NoRet]
    /\ sends = [t \in Tasks |-> 0]
    /\ logins = [t \in Tasks |-> 0]
    /\ lastLogin = [t \in Tasks |-> "none"]
    /\ loginPosts = 0
    /\ login302 = 0
    /\ loginFailed = 0
    /\ loginAborted = 0
    /\ markerHits = 0
    /\ since302 = FALSE

\* ------------------------------------------------------------ code pieces
\* lines 65 and 81 with 89-109: _login is entered with the lock held and the
\* flag at value flag; it returns at once when the flag is set (the data
\* request goes out), else it POSTs.  s0 and l0 are the call's counts so far.
EnterLoginOptimistic(t, flag, stage, s0, l0) ==
    IF AlreadyLoggedIn(flag)
    THEN /\ pc' = [pc EXCEPT ![t] = IF stage = "login" THEN "send" ELSE "resend"]
         /\ sends' = [sends EXCEPT ![t] = s0 + 1]
         /\ logins' = [logins EXCEPT ![t] = l0]
         /\ loginPosts' = loginPosts
         /\ logged_in' = flag
    ELSE /\ pc' = [pc EXCEPT ![t] = IF stage = "login" THEN "login_post"
                                    ELSE "relogin_post"]
         /\ sends' = [sends EXCEPT ![t] = s0]
         /\ logins' = [logins EXCEPT ![t] = l0 + 1]
         /\ loginPosts' = loginPosts + 1
         /\ logged_in' = TRUE
EnterLogin(t, flag, stage, s0, l0) ==
    IF AlreadyLoggedIn(flag)
    THEN /\ pc' = [pc EXCEPT ![t] = IF stage = "login" THEN "send" ELSE "resend"]
         /\ sends' = [sends EXCEPT ![t] = s0 + 1]
         /\ logins' = [logins EXCEPT ![t] = l0]
         /\ loginPosts' = loginPosts
         /\ logged_in' = flag
    ELSE /\ pc' = [pc EXCEPT ![t] = IF stage = "login" THEN "login_post"
                                    ELSE "relogin_post"]
         /\ sends' = [sends EXCEPT ![t] = s0]
         /\ logins' = [logins EXCEPT ![t] = l0 + 1]
         /\ loginPosts' = loginPosts + 1
         /\ logged_in' = flag

\* the async with of line 63 is left: release() and the caller resumes
ExitLock(t, r) ==
    /\ locked' = FALSE
    /\ woken' = WakeUpFirst(waiters, woken)
    /\ waiters' = waiters
    /\ pc' = [pc EXCEPT ![t] = "idle"]
    /\ ret' = [ret EXCEPT ![t] = r]
    /\ resp' = [resp EXCEPT ![t] = NoResp]

\* ---------------------------------------------------------------- actions
\* a task calls _make_request: line 63, then 65 if the lock is free
Request(t) ==
    /\ pc[t] = "idle"
    /\ calls < MaxCalls
    /\ calls' = calls + 1
    /\ ret' = [ret EXCEPT ![t] = NoRet]
    /\ lastLogin' = [lastLogin EXCEPT ![t] = "none"]
    /\ IF CanAcquire
       THEN /\ locked' = TRUE
            /\ UNCHANGED <<waiters, woken>>
            /\ EnterLogin(t, logged_in, "login", 0, 0)
       ELSE /\ waiters' = Append(waiters, t)
            /\ pc' = [pc EXCEPT ![t] = "wait_lock"]
            /\ sends' = [sends EXCEPT ![t] = 0]
            /\ logins' = [logins EXCEPT ![t] = 0]
            /\ UNCHANGED <<locked, woken, loginPosts, logged_in>>
    /\ UNCHANGED <<resp, login302, loginFailed, loginAborted,
                   markerHits, since302>>

\* a woken waiter resumes inside Lock.acquire and takes the lock
Acquired(t) ==
    /\ pc[t] = "wait_lock"
    /\ t \in woken
    /\ locked' = TRUE
    /\ waiters' = RemoveTask(waiters, t)
    /\ woken' = woken \ {t}
    /\ EnterLogin(t, logged_in, "login", 0, 0)
    /\ UNCHANGED <<calls, resp, ret, lastLogin, login302,
                   loginFailed, loginAborted, markerHits, since302>>

\* lines 107-114: the answer to the login POST of line 65
LoginResponse(t, status, body) ==
    /\ pc[t] = "login_post"
    /\ logged_in' = FlagAfterLogin(logged_in, status)
    /\ since302' = (since302 \/ status = 302)
    /\ login302' = IF status = 302 THEN login302 + 1 ELSE login302
    /\ loginFailed' = IF status = 302 THEN loginFailed ELSE loginFailed + 1
    /\ IF status = 302
       THEN /\ lastLogin' = [lastLogin EXCEPT ![t] = "ok"]
            /\ pc' = [pc EXCEPT ![t] = "send"]
            /\ sends' = [sends EXCEPT ![t] = 1]
            /\ resp' = resp
       ELSE /\ lastLogin' = [lastLogin EXCEPT ![t] =
                                IF body = "busy" THEN "busy" ELSE "generic"]
            /\ pc' = [pc EXCEPT ![t] = "login_text"]
            /\ sends' = sends
            /\ resp' = [resp EXCEPT ![t] =
                          [status |-> status, body |-> body, cached |-> FALSE]]
    /\ UNCHANGED <<lockVars, calls, ret, logins, loginPosts, loginAborted,
                   markerHits>>

\* lines 114-119 then 65-66: the body of a failed login has been read
LoginText(t) ==
    /\ pc[t] = "login_text"
    /\ IF LoginReturn(resp[t].status, resp[t].body)
       THEN /\ pc' = [pc EXCEPT ![t] = "send"]
            /\ sends' = [sends EXCEPT ![t] = 1]
            /\ resp' = [resp EXCEPT ![t] = NoResp]
            /\ UNCHANGED <<lockVars, ret>>
       ELSE /\ ExitLock(t, AuthError("login"))
            /\ sends' = sends
    /\ UNCHANGED <<logged_in, calls, logins, lastLogin, histVars, since302>>

\* lines 70-76 and 87: the answer to the data request
SendResponse(t, status, body) ==
    /\ pc[t] = "send"
    /\ LET r == [status |-> status, body |-> body, cached |-> FALSE] IN
       IF status = 200
       THEN /\ pc' = [pc EXCEPT ![t] = "read_text"]
            /\ resp' = [resp EXCEPT ![t] = r]
            /\ UNCHANGED <<lockVars, ret>>
       ELSE ExitLock(t, Returned(r, FALSE))
    /\ UNCHANGED <<logged_in, calls, sends, logins, lastLogin, histVars,
                   since302>>

\* lines 76-81 and 87: the body has been read and is searched for the form
ReadText(t) ==
    /\ pc[t] = "read_text"
    /\ LET r == [resp[t] EXCEPT !.cached = TRUE] IN
       IF IsExpired(r)
       THEN /\ since302' = FALSE
            /\ markerHits' = markerHits + 1
            /\ resp' = [resp EXCEPT ![t] = r]
            /\ EnterLogin(t, FALSE, "relogin", sends[t], logins[t])
            /\ UNCHANGED <<lockVars, ret>>
       ELSE /\ ExitLock(t, Returned(r, FALSE))
            /\ UNCHANGED <<logged_in, since302, markerHits, sends, logins,
                           loginPosts>>
    /\ UNCHANGED <<calls, lastLogin, login302, loginFailed, loginAborted>>

\* lines 107-114 under line 81, then 84: the answer to the re-login POST
ReloginResponse(t, status, body) ==
    /\ pc[t] = "relogin_post"
    /\ logged_in' = FlagAfterLogin(logged_in, status)
    /\ since302' = (since302 \/ status = 302)
    /\ login302' = IF status = 302 THEN login302 + 1 ELSE login302
    /\ loginFailed' = IF status = 302 THEN loginFailed ELSE loginFailed + 1
    /\ IF status = 302
       THEN /\ lastLogin' = [lastLogin EXCEPT ![t] = "ok"]
            /\ pc' = [pc EXCEPT ![t] = "resend"]
            /\ sends' = [sends EXCEPT ![t] = @ + 1]
            /\ resp' = resp
       ELSE /\ lastLogin' = [lastLogin EXCEPT ![t] =
                                IF body = "busy" THEN "busy" ELSE "generic"]
            /\ pc' = [pc EXCEPT ![t] = "relogin_text"]
            /\ sends' = sends
            /\ resp' = [resp EXCEPT ![t] =
                          [status |-> status, body |-> body, cached |-> FALSE]]
    /\ UNCHANGED <<lockVars, calls, ret, logins, loginPosts, loginAborted,
                   markerHits>>

\* lines 114-119 then 81-82: the body of a failed re-login has been read
ReloginText(t) ==
    /\ pc[t] = "relogin_text"
    /\ IF LoginReturn(resp[t].status, resp[t].body)
       THEN /\ pc' = [pc EXCEPT ![t] = "resend"]
            /\ sends' = [sends EXCEPT ![t] = @ + 1]
            /\ resp' = [resp EXCEPT ![t] = NoResp]
            /\ UNCHANGED <<lockVars, ret>>
       ELSE /\ ExitLock(t, AuthError("relogin"))
            /\ sends' = sends
    /\ UNCHANGED <<logged_in, calls, logins, lastLogin, histVars, since302>>

\* lines 84-85: the answer to the resent request is returned as it is
ResendResponseLoop(t, status, body) ==
    /\ pc[t] = "resend"
    /\ LET r == [status |-> status, body |-> body, cached |-> TRUE] IN
       IF IsExpired(r) /\ sends[t] < 4
       THEN /\ since302' = FALSE
            /\ markerHits' = markerHits + 1
            /\ resp' = [resp EXCEPT ![t] = r]
            /\ EnterLogin(t, FALSE, "relogin", sends[t], logins[t])
            /\ UNCHANGED <<lockVars, ret>>
       ELSE /\ ExitLock(t, Returned(r, TRUE))
            /\ UNCHANGED <<logged_in, since302, markerHits, sends, logins,
                           loginPosts>>
    /\ UNCHANGED <<calls, lastLogin, login302, loginFailed, loginAborted>>
ResendResponse(t, status, body) ==
    /\ pc[t] = "resend"
    /\ ExitLock(t, Returned([status |-> status, body |-> body,
                             cached |-> FALSE], TRUE))
    /\ UNCHANGED <<logged_in, calls, sends, logins, lastLogin, histVars,
                   since302>>

\* the exception unwinds the call: the async with of line 63 releases the
\* lock when it was held, Lock.acquire's handler passes the wake-up on
Unwind(t, why) ==
    /\ IF pc[t] = "wait_lock"
       THEN /\ waiters' = RemoveTask(waiters, t)
            /\ woken' = IF t \in woken /\ ~locked
                        THEN WakeUpFirst(RemoveTask(waiters, t), woken \ {t})
                        ELSE woken \ {t}
            /\ locked' = locked
            /\ pc' = [pc EXCEPT ![t] = "idle"]
            /\ ret' = [ret EXCEPT ![t] = [NoRet EXCEPT !.kind = why]]
            /\ resp' = resp
       ELSE ExitLock(t, [NoRet EXCEPT !.kind = why])
    /\ loginAborted' = IF pc[t] \in LoginPcs THEN loginAborted + 1
                       ELSE loginAborted
    /\ UNCHANGED <<logged_in, calls, sends, logins, lastLogin, loginPosts,
                   login302, loginFailed, markerHits, since302>>

\* the host cancels the task while it is suspended at an await
Cancel(t) ==
    /\ pc[t] \in AwaitPcs
    /\ Unwind(t, "CancelledError")

\* the transport raises (aiohttp.ClientError) in an awaited HTTP call
TransportError(t) ==
    /\ pc[t] \in InFlight
    /\ Unwind(t, "ClientError")

Next ==
    \/ \E t \in Tasks : Request(t)
          /\ UNCHANGED farVars
    \/ \E t \in Tasks : Acquired(t)
          /\ UNCHANGED farVars
    \/ \E t \in Tasks, s \in LoginStatuses, b \in LoginBodies :
          LoginResponse(t, s, b)
          /\ UNCHANGED farVars
    \/ \E t \in Tasks : LoginText(t)
          /\ UNCHANGED farVars
    \/ \E t \in Tasks, s \in DataStatuses, b \in DataBodies :
          SendResponse(t, s, b)
          /\ UNCHANGED farVars
    \/ \E t \in Tasks : ReadText(t)
          /\ UNCHANGED farVars
    \/ \E t \in Tasks, s \in LoginStatuses, b \in LoginBodies :
          ReloginResponse(t, s, b)
          /\ UNCHANGED farVars
    \/ \E t \in Tasks : ReloginText(t)
          /\ UNCHANGED farVars
    \/ \E t \in Tasks, s \in DataStatuses, b \in DataBodies :
          ResendResponse(t, s, b)
          /\ UNCHANGED farVars
    \/ \E t \in Tasks : Cancel(t)
          /\ UNCHANGED farVars
    \/ \E t \in Tasks : TransportError(t)
          /\ UNCHANGED farVars

\* python values: None, a dict (a function on its keys), a list (a sequence)
PyNone == [type |-> "None"]
PyDict(f) == [type |-> "dict", items |-> f]
PyList(q) == [type |-> "list", items |-> q]
Unset == [type |-> "unset"]
PyStr(q) == [type |-> "str", chars |-> q]

\* no extraction routine is running
PureOff == fin = Unset /\ fout = Unset

\* no operation of the integration is running
OpsOff == ops = <<>>

\* no config entry is being set up
RegOff == reg = <<>>

\* the client alone: nothing else runs
ClientInit == Init /\ PureOff /\ OpsOff /\ RegOff

Spec == ClientInit /\ [][Next]_allVars

\* the steps a call takes by itself once the event loop runs it: the waiter
\* whose future was set resumes, the transport delivers an answer, a body is
\* read
Progress(t) ==
    \/ Acquired(t)
    \/ \E s \in LoginStatuses, b \in LoginBodies : LoginResponse(t, s, b)
    \/ LoginText(t)
    \/ \E s \in DataStatuses, b \in DataBodies : SendResponse(t, s, b)
    \/ ReadText(t)
    \/ \E s \in LoginStatuses, b \in LoginBodies : ReloginResponse(t, s, b)
    \/ ReloginText(t)
    \/ \E s \in DataStatuses, b \in DataBodies : ResendResponse(t, s, b)

\* the client with a transport that answers every call and an event loop
\* that runs every ready task
FairSpec ==
    /\ ClientInit
    /\ [][Next]_allVars
    /\ \A t \in Tasks : WF_allVars(Progress(t) /\ UNCHANGED farVars)

TypeOK ==
    /\ logged_in \in BOOLEAN
    /\ locked \in BOOLEAN
    /\ woken \subseteq Tasks
    /\ \A t \in Tasks : pc[t] \in AwaitPcs \cup {"idle"}

\* ------------------------------------------------- extraction routines
\* A page is modelled by what the patterns of the routine can find in it.
\* Text is a sequence of tokens: a letter, a blank, a character reference.

\* what re.search found for one pattern: nothing, or the captured group
NoMatch == [found |-> FALSE, text |-> <<>>, raw |-> 0]
Text(txt) == [found |-> TRUE, text |-> txt, raw |-> 0]
Number(n) == [found |-> TRUE, text |-> <<>>, raw |-> n]

RECURSIVE StripLeft(_)
StripLeft(txt) ==
    IF txt # <<>> /\ Head(txt) = " " THEN StripLeft(Tail(txt)) ELSE txt

RECURSIVE StripRight(_)
StripRight(txt) ==
    IF txt # <<>> /\ txt[Len(txt)] = " "
    THEN StripRight(SubSeq(txt, 1, Len(txt) - 1)) ELSE txt

\* str.strip(), line 165
Strip(txt) == StripRight(StripLeft(txt))

\* html.unescape, line 165: each character reference becomes its character
UnescapeToken(c) ==
    CASE c = "&amp;" -> "&"
      [] c = "&lt;" -> "<"
      [] c = "&#65;" -> "A"
      [] OTHER -> c
Unescape(txt) == [i \in 1..Len(txt) |-> UnescapeToken(txt[i])]

\* the six patterns of get_device_info, lines 153-160
DeviceFields == {"carrier_name", "model_name", "serial_number",
                 "hardware_ver", "software_ver", "boot_ver"}

\* the pattern ([^<]+) of lines 154-159 needs one character at least: a cell
\* without text is not matched
DeviceMatch(cell) == cell.found /\ Len(cell.text) >= 1

\* get_device_info, lines 152-167: the record of the matched cells, or None
DeviceInfoOfEmptyDict(page) ==
    LET keys == {k \in DeviceFields : DeviceMatch(page[k])} IN
    PyDict([k \in keys |-> Unescape(Strip(page[k].text))])
DeviceInfoOf(page) ==
    LET keys == {k \in DeviceFields : DeviceMatch(page[k])}
        device_info == [k \in keys |-> Unescape(Strip(page[k].text))]
    IN IF keys # {} THEN PyDict(device_info) ELSE PyNone

\* the cells tried for each field of the device page
DeviceCells == {NoMatch, Text(<<>>), Text(<<"Z">>),
                Text(<<" ", "R", "&amp;", "D", " ">>)}
\* the pages tried: the first three fields vary freely, the last three
\* are all absent or all the same cell
DevicePages ==
    {pg \in [DeviceFields -> DeviceCells] :
        /\ pg["software_ver"] = pg["hardware_ver"]
        /\ pg["boot_ver"] = pg["hardware_ver"]}

\* the five variables of get_optical_info, lines 182-186, with the divisor
\* of lines 190-206 and the number of decimals kept
OpticalVars == {"rx_power", "tx_power", "current", "voltage", "temperature"}
Divisor(k) ==
    CASE k = "rx_power" -> 10000
      [] k = "tx_power" -> 10000
      [] k = "current" -> 1000
      [] k = "voltage" -> 1000000
      [] k = "temperature" -> 1000
Decimals(k) ==
    CASE k = "rx_power" -> 2
      [] k = "tx_power" -> 2
      [] k = "current" -> 4
      [] k = "voltage" -> 4
      [] k = "temperature" -> 4

Pow10(n) == CASE n = 0 -> 1 [] n = 1 -> 10 [] n = 2 -> 100 [] n = 3 -> 1000
              [] n = 4 -> 10000 [] n = 5 -> 100000 [] n = 6 -> 1000000

Abs(n) == IF n < 0 THEN 0 - n ELSE n

\* round(num / den, decimals), lines 190-206, as a count of units of
\* 10^-decimals: the nearest count; when num / den lies exactly half way
\* between two counts the binary float decides, so either may come out
\* (up chooses).  den and 10^decimals are powers of ten, so one divides
\* the other.
RoundedTruncate(num, den, decimals, up) ==
    IF Pow10(decimals) >= den THEN num * (Pow10(decimals) \div den)
    ELSE num \div (den \div Pow10(decimals))
Rounded(num, den, decimals, up) ==
    IF Pow10(decimals) >= den
    THEN num * (Pow10(decimals) \div den)
    ELSE LET d == den \div Pow10(decimals)
             q == num \div d
             r == num - q * d
         IN IF 2 * r < d THEN q
            ELSE IF 2 * r > d THEN q + 1
            ELSE IF up THEN q + 1 ELSE q

\* lines 212-215: the two entries made from the loid state
ConnectedAtLeastOne(state) == state >= 1
Connected(state) == state = 1

\* get_optical_info, lines 179-217
OpticalInfoOf(page, up) ==
    LET nums == {k \in OpticalVars : page[k].found}
        loid == IF page["loid_state"].found THEN {"connected", "loid_state"}
                ELSE {}
        optical_info ==
            [k \in nums \cup loid |->
                CASE k = "connected" -> Connected(page["loid_state"].raw)
                  [] k = "loid_state" -> page["loid_state"].raw
                  [] OTHER -> Rounded(page[k].raw, Divisor(k), Decimals(k),
                                      up[k])]
    IN IF nums \cup loid # {} THEN PyDict(optical_info) ELSE PyNone

\* the raw values tried for each variable of the optical page
OpticalRaws(k) ==
    CASE k = "rx_power" -> {Number(1234500), Number(1250), Number(0 - 183450)}
      [] k = "tx_power" -> {Number(25051)}
      [] k = "current" -> {Number(12000), Number(12345)}
      [] k = "voltage" -> {Number(3300000), Number(3312345), Number(50)}
      [] k = "temperature" -> {Number(45000), Number(0 - 5500)}
      [] k = "loid_state" -> {Number(0), Number(1), Number(2)}
OpticalPages ==
    {pg \in [OpticalVars \cup {"loid_state"} ->
                {NoMatch} \cup UNION {OpticalRaws(k) :
                                        k \in OpticalVars \cup {"loid_state"}}] :
        \A k \in OpticalVars \cup {"loid_state"} :
            pg[k] \in {NoMatch} \cup OpticalRaws(k)}

\* ---- _parse_error_type, lines 281-302; a string is a sequence of characters
HexLower == <<"0", "1", "2", "3", "4", "5", "6", "7", "8", "9",
              "a", "b", "c", "d", "e", "f">>
HexUpper == <<"0", "1", "2", "3", "4", "5", "6", "7", "8", "9",
              "A", "B", "C", "D", "E", "F">>

IsHexDigit(c) == \E i \in 1..16 : HexLower[i] = c \/ HexUpper[i] = c
HexDigitVal(c) == (CHOOSE i \in 1..16 : HexLower[i] = c \/ HexUpper[i] = c) - 1

\* int(hex_str, 16), line 292, of a string of at most two characters: blanks
\* at the ends are dropped, a sign may come first, then hex digits; anything
\* else is a ValueError (ok is FALSE)
IntHex(hex_str) ==
    LET h == Strip(hex_str) IN
    IF Len(h) = 1 /\ IsHexDigit(h[1])
    THEN [ok |-> TRUE, val |-> HexDigitVal(h[1])]
    ELSE IF Len(h) = 2 /\ IsHexDigit(h[1]) /\ IsHexDigit(h[2])
    THEN [ok |-> TRUE, val |-> 16 * HexDigitVal(h[1]) + HexDigitVal(h[2])]
    ELSE IF Len(h) = 2 /\ h[1] = "+" /\ IsHexDigit(h[2])
    THEN [ok |-> TRUE, val |-> HexDigitVal(h[2])]
    ELSE IF Len(h) = 2 /\ h[1] = "-" /\ IsHexDigit(h[2])
    THEN [ok |-> TRUE, val |-> 0 - HexDigitVal(h[2])]
    ELSE [ok |-> FALSE, val |-> 0]

\* str(hex_value), line 293
RECURSIVE DecStr(_)
DecStr(n) ==
    IF n < 0 THEN <<"-">> \o DecStr(0 - n)
    ELSE IF n < 10 THEN <<HexLower[n + 1]>>
    ELSE DecStr(n \div 10) \o <<HexLower[(n % 10) + 1]>>

\* the loop of lines 287-301 from position i (counted from 1) on
RECURSIVE ParseFrom(_, _)
ParseFrom(str, i) ==
    IF i > Len(str) THEN <<>>
    ELSE IF i + 1 <= Len(str) /\ str[i] = "\\" /\ str[i + 1] = "x"
    THEN LET last == IF i + 3 <= Len(str) THEN i + 3 ELSE Len(str)
             h == IntHex(SubSeq(str, i + 2, last))
         IN IF h.ok THEN DecStr(h.val) \o ParseFrom(str, i + 4)
            ELSE <<str[i]>> \o ParseFrom(str, i + 1)
    ELSE <<str[i]>> \o ParseFrom(str, i + 1)

\* _parse_error_type, lines 281-302
ParseErrorType(error_type_str) == ParseFrom(error_type_str, 1)

\* ---- get_lan_info, lines 229-279.  A table is the sequence of its cells of
\* class tdright; a cell holds a port name, a connection word, a pair
\* packets/bytes, a lone number, or something no pattern matches.
NameCell(n) == [kind |-> "name", name |-> n, up |-> FALSE, a |-> 0, b |-> 0]
StatusCell(u) == [kind |-> "status", name |-> "", up |-> u, a |-> 0, b |-> 0]
PairCell(x, y) == [kind |-> "pair", name |-> "", up |-> FALSE, a |-> x, b |-> y]
NumCell(x) == [kind |-> "num", name |-> "", up |-> FALSE, a |-> x, b |-> 0]
OtherCell == [kind |-> "other", name |-> "", up |-> FALSE, a |-> 0, b |-> 0]

\* re.findall of one of the cell patterns: the cells of that kind, in order
CellsOf(table, kind) == SelectSeq(table, LAMBDA c : c.kind = kind)

\* lines 236-277: the record made from one table
PortInfoOf(table) ==
    LET names == CellsOf(table, "name")
        states == CellsOf(table, "status")
        pairs == CellsOf(table, "pair")
        nums == CellsOf(table, "num")
        keys == (IF names # <<>> THEN {"name"} ELSE {})
                \cup (IF states # <<>> THEN {"connected"} ELSE {})
                \cup (IF pairs # <<>> THEN {"rx_packets", "rx_bytes"} ELSE {})
                \cup (IF Len(pairs) >= 2 THEN {"tx_packets", "tx_bytes"} ELSE {})
                \cup (IF nums # <<>> THEN {"error_frames"} ELSE {})
    IN [k \in keys |->
          CASE k = "name" -> names[1].name
            [] k = "connected" -> states[1].up
            [] k = "rx_packets" -> pairs[1].a
            [] k = "rx_bytes" -> pairs[1].b
            [] k = "tx_packets" -> pairs[2].a
            [] k = "tx_bytes" -> pairs[2].b
            [] k = "error_frames" -> nums[Len(nums)].a]

\* lines 235-277: the records of the tables that yield a field, in order
RECURSIVE PortsOf(_)
PortsOf(tables) ==
    IF tables = <<>> THEN <<>>
    ELSE LET port_info == PortInfoOf(Head(tables)) IN
         (IF DOMAIN port_info # {} THEN <<port_info>> ELSE <<>>)
         \o PortsOf(Tail(tables))

\* get_lan_info, lines 229-279
LanInfoOfEmptyList(tables) == PyList(PortsOf(tables))
LanInfoOf(tables) ==
    LET lan_ports == PortsOf(tables) IN
    IF lan_ports # <<>> THEN PyList(lan_ports) ELSE PyNone

\* ---- the extraction routines run on their own
\* get_device_info is handed a page
DeviceInit ==
    /\ Init
    /\ OpsOff
    /\ RegOff
    /\ fin \in {[routine |-> "get_device_info", page |-> pg] : pg \in DevicePages}
    /\ fout = Unset

\* get_device_info, lines 152-167
ExtractDevice ==
    /\ fin.routine = "get_device_info"
    /\ fout = Unset
    /\ fout' = DeviceInfoOf(fin.page)
    /\ fin' = fin

DeviceNext == ExtractDevice /\ UNCHANGED <<vars, ops, reg>>

DeviceSpec == DeviceInit /\ [][DeviceNext]_allVars

\* get_optical_info is handed a page
OpticalInit ==
    /\ Init
    /\ OpsOff
    /\ RegOff
    /\ fin \in {[routine |-> "get_optical_info", page |-> pg] : pg \in OpticalPages}
    /\ fout = Unset

\* get_optical_info, lines 179-217
ExtractOptical ==
    /\ fin.routine = "get_optical_info"
    /\ fout = Unset
    /\ \E up \in [OpticalVars -> BOOLEAN] : fout' = OpticalInfoOf(fin.page, up)
    /\ fin' = fin

OpticalNext == ExtractOptical /\ UNCHANGED <<vars, ops, reg>>

OpticalSpec == OpticalInit /\ [][OpticalNext]_allVars

\* _parse_error_type is handed a string
ErrChars == {"\\", "x", "2", "f", "Z", "-"}

RECURSIVE StringsUpTo(_)
StringsUpTo(n) ==
    IF n = 0 THEN {<<>>}
    ELSE LET shorter == StringsUpTo(n - 1) IN
         shorter \cup {Append(q, c) : q \in {r \in shorter : Len(r) = n - 1},
                                      c \in ErrChars}

ErrInit ==
    /\ Init
    /\ OpsOff
    /\ RegOff
    /\ fin \in {[routine |-> "_parse_error_type", arg |-> q] :
                  q \in StringsUpTo(MaxErrLen)}
    /\ fout = Unset

\* _parse_error_type, lines 281-302
ExtractErrorType ==
    /\ fin.routine = "_parse_error_type"
    /\ fout = Unset
    /\ fout' = PyStr(ParseErrorType(fin.arg))
    /\ fin' = fin

ErrNext == ExtractErrorType /\ UNCHANGED <<vars, ops, reg>>

ErrSpec == ErrInit /\ [][ErrNext]_allVars

\* get_lan_info is handed the tables of a page
LanCells == {NameCell("LAN1"), StatusCell(TRUE), PairCell(100, 2000),
             PairCell(50, 900), NumCell(3), NumCell(7), OtherCell}

RECURSIVE LanTables(_)
LanTables(n) ==
    IF n = 0 THEN {<<>>}
    ELSE LET shorter == LanTables(n - 1) IN
         shorter \cup {Append(t, c) : t \in {r \in shorter : Len(r) = n - 1},
                                      c \in LanCells}

LanPages ==
    {<<>>} \cup {<<t>> : t \in LanTables(MaxCells)}
           \cup {<<t1, t2>> : t1 \in LanTables(1), t2 \in LanTables(1)}

LanInit ==
    /\ Init
    /\ OpsOff
    /\ RegOff
    /\ fin \in {[routine |-> "get_lan_info", page |-> pg] : pg \in LanPages}
    /\ fout = Unset

\* get_lan_info, lines 229-279
ExtractLan ==
    /\ fin.routine = "get_lan_info"
    /\ fout = Unset
    /\ fout' = LanInfoOf(fin.page)
    /\ fin' = fin

LanNext == ExtractLan /\ UNCHANGED <<vars, ops, reg>>

LanSpec == LanInit /\ [][LanNext]_allVars

\* ----------------------------------------------------------- operations
\* The operations the host runs: the periodic refresh
\* (coordinator._async_update_data), the restart service
\* (__init__.async_restart_device_service) and the validation of the setup
\* form (config_flow.async_step_user).  Each creates its own client
\* (create_api_client), so each has a flag and a lock of its own and is the
\* only caller of its client.

Procs == {"refresh", "restart", "setup"}

\* the await points of detect_modem_model (api.py lines 351-357)
DetectPcs == {"detect_get", "detect_text"}

NoData == [token |-> <<>>, etype |-> <<>>]
Req(name, data) == [req |-> name, data |-> data]
LoginReq == Req("POST login", NoData)

NoOut == [kind |-> "none", value |-> Unset, exc |-> "none", shown |-> "none"]
NoAcc == [optical |-> Unset, lan |-> Unset, device |-> Unset,
          payload |-> NoData]

PyBool(b) == [type |-> "bool", val |-> b]

\* an operation that has not run; its client does not exist yet
OpOff == [phase |-> "off", pc |-> "idle", flag |-> FALSE, lock |-> FALSE,
          resp |-> NoResp, req |-> LoginReq, log |-> <<>>, rets |-> <<>>,
          pages |-> <<>>, markers |-> 0, round |-> 1, prevFlag |-> FALSE,
          acc |-> NoAcc, out |-> NoOut]

\* api.py lines 30-37 under create_api_client: the new client of an operation
NewClient == [OpOff EXCEPT !.phase = "start"]

\* coordinator lines 52 and 64: the next run of an operation builds its client
\* anew; prevFlag keeps what the flag of the client left behind was
FreshClientPooled(prev) ==
    [NewClient EXCEPT !.round = prev.round + 1, !.prevFlag = prev.flag,
                      !.flag = prev.flag]
FreshClient(prev) ==
    [NewClient EXCEPT !.round = prev.round + 1, !.prevFlag = prev.flag]

\* the pages tried for each request of an operation
OpPages(phase) ==
    CASE phase = "optical" ->
            {[k \in OpticalVars \cup {"loid_state"} |-> NoMatch],
             [k \in OpticalVars \cup {"loid_state"} |->
                 IF k = "rx_power" THEN Number(1234500)
                 ELSE IF k = "loid_state" THEN Number(1) ELSE NoMatch]}
      [] phase = "lan" ->
            {<< <<OtherCell>> >>,
             << <<NameCell("LAN1"), StatusCell(TRUE), PairCell(100, 2000)>> >>}
      [] phase = "device" ->
            {[k \in DeviceFields |-> NoMatch],
             [k \in DeviceFields |->
                 IF k = "model_name" THEN Text(<<"Z">>) ELSE NoMatch]}
      [] phase = "harvest" ->
            {[token |-> NoMatch, codes |-> << <<"7">> >>],
             [token |-> Text(<<"T">>), codes |-> <<>>],
             [token |-> Text(<<"T">>),
              codes |-> << <<"7">>, <<"\\", "x", "2", "1">> >>]}
      [] OTHER -> {NoMatch}

\* ---- _make_request on the operation's client
\* lines 63-70 and 89-109: the lock is taken, _login returns at once or POSTs
CallRequest(st, phase, req) ==
    LET s1 == [st EXCEPT !.phase = phase, !.lock = TRUE, !.req = req] IN
    IF AlreadyLoggedIn(st.flag)
    THEN [s1 EXCEPT !.pc = "send", !.log = Append(@, req)]
    ELSE [s1 EXCEPT !.pc = "login_post", !.log = Append(@, LoginReq)]

\* lines 107-114 under 65 or 81: the answer to a login POST
AfterLoginAnswer(st, status, body) ==
    LET s1 == [st EXCEPT !.flag = FlagAfterLogin(st.flag, status)] IN
    IF status = 302
    THEN [s1 EXCEPT !.pc = IF st.pc = "login_post" THEN "send" ELSE "resend",
                    !.log = Append(@, st.req)]
    ELSE [s1 EXCEPT !.pc = IF st.pc = "login_post" THEN "login_text"
                           ELSE "relogin_text",
                    !.resp = [status |-> status, body |-> body,
                              cached |-> FALSE]]

\* the exception an outcome of _make_request carries on to the caller that
\* reads the response (lines 143-149, 172-176, 222-226, 308-312)
ExcOf(r) ==
    IF r.kind # "response" THEN r.kind
    ELSE IF r.read = "ClientConnectionError" THEN "ClientConnectionError"
    ELSE "none"

\* the operation ends
Done(st, out) == [st EXCEPT !.phase = "done", !.out = out]

\* ---- the callers
\* config_flow.async_step_user lines 76-89: what the form shows
SetupShown(exc) ==
    IF exc = "none" THEN "create_entry"
    ELSE IF exc = "CannotConnect" THEN "cannot_connect"
    ELSE "unknown"

\* config_flow.validate_input lines 52-59 on top of get_device_info
\* (api.py lines 143-167)
AfterDevice(st, r, pg) ==
    IF ExcOf(r) # "none"
    THEN Done(st, [NoOut EXCEPT !.kind = "raise", !.exc = ExcOf(r),
                                !.shown = SetupShown(ExcOf(r))])
    ELSE LET device_info == IF r.read = "no_data" THEN PyNone
                            ELSE DeviceInfoOf(pg)
             s1 == [st EXCEPT !.acc.device = device_info]
         IN IF device_info = PyNone
            THEN Done(s1, [NoOut EXCEPT !.kind = "raise",
                                        !.exc = "CannotConnect",
                                        !.shown = SetupShown("CannotConnect")])
            ELSE Done(s1, [NoOut EXCEPT !.kind = "return",
                                        !.value = device_info,
                                        !.shown = SetupShown("none")])

\* coordinator lines 58-59: value or empty
OrEmptyKeepNone(v, empty) == v
OrEmpty(v, empty) ==
    IF \/ v.type = "None"
       \/ (v.type = "dict" /\ DOMAIN v.items = {})
       \/ (v.type = "list" /\ v.items = <<>>)
    THEN empty ELSE v

NoUp == [k \in OpticalVars |-> FALSE]

\* coordinator lines 54-55 on top of get_optical_info (api.py lines 172-217)
AfterOpticalContinue(st, r, pg) ==
    LET optical_info == IF ExcOf(r) # "none" \/ r.read = "no_data" THEN PyNone
                        ELSE OpticalInfoOf(pg, NoUp)
    IN CallRequest([st EXCEPT !.acc.optical = optical_info], "lan",
                   Req("GET lan", NoData))
AfterOptical(st, r, pg) ==
    IF ExcOf(r) # "none"
    THEN Done(st, [NoOut EXCEPT !.kind = "raise", !.exc = ExcOf(r)])
    ELSE LET optical_info == IF r.read = "no_data" THEN PyNone
                             ELSE OpticalInfoOf(pg, NoUp)
         IN CallRequest([st EXCEPT !.acc.optical = optical_info], "lan",
                        Req("GET lan", NoData))

\* coordinator lines 55-60 on top of get_lan_info (api.py lines 222-279)
AfterLan(st, r, pg) ==
    IF ExcOf(r) # "none"
    THEN Done(st, [NoOut EXCEPT !.kind = "raise", !.exc = ExcOf(r)])
    ELSE LET lan_info == IF r.read = "no_data" THEN PyNone
                         ELSE LanInfoOf(pg)
             s1 == [st EXCEPT !.acc.lan = lan_info]
             data == [k \in {"optical_info", "lan_info"} |->
                        IF k = "optical_info"
                        THEN OrEmpty(st.acc.optical, PyDict(<<>>))
                        ELSE OrEmpty(lan_info, PyList(<<>>))]
         IN Done(s1, [NoOut EXCEPT !.kind = "return", !.value = PyDict(data)])

\* __init__.async_restart_device_service lines 57-63: what the service call
\* ends with, given what coordinator.async_restart_device did
ServiceShown(exc, success) ==
    IF exc # "none" THEN exc
    ELSE IF success THEN "done"
    ELSE "HomeAssistantError"

RestartDone(st, exc, success) ==
    Done(st, [NoOut EXCEPT !.kind = IF exc = "none" THEN "return" ELSE "raise",
                           !.value = IF exc = "none" THEN PyBool(success)
                                     ELSE Unset,
                           !.exc = exc,
                           !.shown = ServiceShown(exc, success)])

\* restart_device, lines 308-344: the page is searched and the POST is sent
HarvestOk(pg) == pg.token.found /\ pg.codes # <<>>

\* lines 331-342: the form posted
PayloadFirstCode(pg) ==
    [token |-> pg.token.text, etype |-> ParseErrorType(pg.codes[1])]
Payload(pg) ==
    [token |-> pg.token.text,
     etype |-> ParseErrorType(pg.codes[Len(pg.codes)])]

AfterHarvest(st, r, pg) ==
    IF ExcOf(r) # "none" THEN RestartDone(st, ExcOf(r), FALSE)
    ELSE IF r.read = "no_data" THEN RestartDone(st, "none", FALSE)
    ELSE IF ~HarvestOk(pg) THEN RestartDone(st, "none", FALSE)
    ELSE CallRequest([st EXCEPT !.acc.payload = Payload(pg)], "post",
                     Req("POST restart", Payload(pg)))

\* restart_device, lines 344-345
RestartedAlways(r) == TRUE
Restarted(r) == r.status = 200

AfterPost(st, r) ==
    IF r.kind # "response" THEN RestartDone(st, r.kind, FALSE)
    ELSE RestartDone(st, "none", Restarted(r))

\* _make_request has ended with r (line 63's block is left, the lock is
\* released) and pg is the page its response carries, read or not; the
\* caller goes on up to its next await
Resume(st, r, pg) ==
    LET s1 == [st EXCEPT !.lock = FALSE, !.pc = "idle", !.resp = NoResp,
                         !.rets = Append(@, r), !.pages = Append(@, pg)]
    IN CASE st.phase = "device" -> AfterDevice(s1, r, pg)
         [] st.phase = "optical" -> AfterOptical(s1, r, pg)
         [] st.phase = "lan" -> AfterLan(s1, r, pg)
         [] st.phase = "harvest" -> AfterHarvest(s1, r, pg)
         [] st.phase = "post" -> AfterPost(s1, r)

\* ---- the client of each operation
\* coordinator lines 52 and 64, config_flow line 49: every operation calls
\* create_api_client (api.py lines 366-376) and works on the instance it got
ClientOfShared(p) == "refresh"
ClientOf(p) == p

\* the fields of one client object (api.py lines 36-37) are the same for all
\* the operations that hold it
Sync(p, new) ==
    [q \in Procs |->
        IF q # p /\ new[q].phase # "off" /\ ClientOf(q) = ClientOf(p)
        THEN [new[q] EXCEPT !.flag = new[p].flag, !.lock = new[p].lock]
        ELSE new[q]]

\* ---- actions of the operations
OpsInit ==
    /\ Init
    /\ PureOff
    /\ RegOff
    /\ \/ ops = [p \in Procs |-> IF p = "setup" THEN OpOff ELSE NewClient]
       \/ ops = [p \in Procs |-> IF p = "setup" THEN NewClient ELSE OpOff]

\* the operation starts: coordinator lines 52-54 and 64-65 with api.py 307-308,
\* config_flow line 39 with api.py lines 350-353
OpBegin(p) ==
    /\ ops[p].phase = "start"
    /\ p = "setup" \/ ~ops[p].lock
    /\ ops' = Sync(p, [ops EXCEPT ![p] =
         CASE p = "refresh" -> CallRequest(@, "optical", Req("GET optical", NoData))
           [] p = "restart" -> CallRequest(@, "harvest", Req("GET restart", NoData))
           [] p = "setup" -> [@ EXCEPT !.phase = "detect", !.pc = "detect_get",
                                      !.log = Append(@, Req("GET root", NoData))]])

\* api.py lines 353-363 and config_flow lines 39-50: the answer to the
\* model detection; found says whether the text holds "SG350"
OpDetectAnswer(p, status, found) ==
    /\ ops[p].pc = "detect_get"
    /\ ops' = Sync(p, [ops EXCEPT ![p] =
         IF status # 200
         THEN Done([@ EXCEPT !.pc = "idle"],
                   [NoOut EXCEPT !.kind = "raise", !.exc = "CannotConnect",
                                 !.shown = SetupShown("CannotConnect")])
         ELSE [@ EXCEPT !.pc = "detect_text",
                        !.resp = [status |-> status,
                                  body |-> IF found THEN "SG350" ELSE "page",
                                  cached |-> FALSE]]])

OpDetectText(p) ==
    /\ ops[p].pc = "detect_text"
    /\ ops' = Sync(p, [ops EXCEPT ![p] =
         IF @.resp.body = "SG350"
         THEN CallRequest([@ EXCEPT !.resp = NoResp], "device",
                          Req("GET device", NoData))
         ELSE Done([@ EXCEPT !.pc = "idle", !.resp = NoResp],
                   [NoOut EXCEPT !.kind = "raise", !.exc = "CannotConnect",
                                 !.shown = SetupShown("CannotConnect")])])

\* lines 107-114: the answer to the login or re-login POST
OpLoginAnswer(p, status, body) ==
    /\ ops[p].pc \in {"login_post", "relogin_post"}
    /\ ops' = Sync(p, [ops EXCEPT ![p] = AfterLoginAnswer(@, status, body)])

\* lines 114-119 and 65-66 or 81-82: _login returns False, the call raises
OpLoginText(p) ==
    /\ ops[p].pc \in {"login_text", "relogin_text"}
    /\ ops' = Sync(p, [ops EXCEPT ![p] =
         IF LoginReturn(@.resp.status, @.resp.body)
         THEN [@ EXCEPT !.pc = IF @.pc = "login_text" THEN "send" ELSE "resend",
                        !.log = Append(@, ops[p].req), !.resp = NoResp]
         ELSE Resume(@, AuthError(IF @.pc = "login_text" THEN "login"
                                  ELSE "relogin"), NoMatch)])

\* lines 70-76 and 87: the answer to the request
OpSendAnswer(p, status, body) ==
    /\ ops[p].pc = "send"
    /\ LET r == [status |-> status, body |-> body, cached |-> FALSE] IN
       ops' = Sync(p, [ops EXCEPT ![p] =
         IF status = 200 THEN [@ EXCEPT !.pc = "read_text", !.resp = r]
         ELSE Resume(@, Returned(r, FALSE), NoMatch)])

\* lines 76-81 and 87: the body is read; a login form starts the re-login,
\* any other page goes back to the caller, who searches it
OpReadText(p) ==
    /\ ops[p].pc = "read_text"
    /\ LET r == [ops[p].resp EXCEPT !.cached = TRUE] IN
       IF IsExpired(r)
       THEN ops' = Sync(p, [ops EXCEPT ![p] =
                [@ EXCEPT !.flag = FALSE, !.resp = r, !.pc = "relogin_post",
                          !.markers = @ + 1,
                          !.log = Append(@, LoginReq)]])
       ELSE \E pg \in OpPages(ops[p].phase) :
                ops' = Sync(p, [ops EXCEPT ![p] = Resume(@, Returned(r, FALSE), pg)])

\* lines 84-85: the answer to the resent request is returned as it is
OpResendAnswer(p, status, body) ==
    /\ ops[p].pc = "resend"
    /\ LET r == [status |-> status, body |-> body, cached |-> FALSE] IN
       \E pg \in IF status = 200 /\ ~IsExpired(r)
                  THEN OpPages(ops[p].phase) ELSE {NoMatch} :
           ops' = Sync(p, [ops EXCEPT ![p] = Resume(@, Returned(r, TRUE), pg)])

\* the transport raises (aiohttp.ClientError) in an awaited HTTP call
OpTransportError(p) ==
    /\ ops[p].pc \in InFlight \cup DetectPcs
    /\ ops' = Sync(p, [ops EXCEPT ![p] =
         IF @.pc \in DetectPcs
         THEN Done([@ EXCEPT !.pc = "idle", !.resp = NoResp],
                   [NoOut EXCEPT !.kind = "raise", !.exc = "ClientError",
                                 !.shown = SetupShown("ClientError")])
         ELSE Resume(@, [NoRet EXCEPT !.kind = "ClientError"], NoMatch)])

\* the operation is run again: the next scheduled refresh, another call of
\* the restart service, the setup form submitted again
OpAgain(p) ==
    /\ ops[p].phase = "done"
    /\ ops[p].round < MaxRounds
    /\ ops' = Sync(p, [ops EXCEPT ![p] = FreshClient(@)])

OpsNext ==
    \/ \E p \in Procs : OpBegin(p) /\ UNCHANGED <<vars, pureVars, reg>>
    \/ \E p \in Procs, s \in DataStatuses, f \in BOOLEAN :
          OpDetectAnswer(p, s, f) /\ UNCHANGED <<vars, pureVars, reg>>
    \/ \E p \in Procs : OpDetectText(p) /\ UNCHANGED <<vars, pureVars, reg>>
    \/ \E p \in Procs, s \in LoginStatuses, b \in LoginBodies :
          OpLoginAnswer(p, s, b) /\ UNCHANGED <<vars, pureVars, reg>>
    \/ \E p \in Procs : OpLoginText(p) /\ UNCHANGED <<vars, pureVars, reg>>
    \/ \E p \in Procs, s \in DataStatuses, b \in DataBodies :
          OpSendAnswer(p, s, b) /\ UNCHANGED <<vars, pureVars, reg>>
    \/ \E p \in Procs : OpReadText(p) /\ UNCHANGED <<vars, pureVars, reg>>
    \/ \E p \in Procs, s \in DataStatuses, b \in DataBodies :
          OpResendAnswer(p, s, b) /\ UNCHANGED <<vars, pureVars, reg>>
    \/ \E p \in Procs : OpTransportError(p) /\ UNCHANGED <<vars, pureVars, reg>>
    \/ \E p \in Procs : OpAgain(p) /\ UNCHANGED <<vars, pureVars, reg>>

OpsSpec == OpsInit /\ [][OpsNext]_allVars

\* ------------------------------------------------------ entries, service
\* __init__.py: async_setup_entry and async_unload_entry of each config entry
\* and the restart service they register and remove.  data is the set of keys
\* of hass.data[DOMAIN]; the coordinator stored under a key is the entry's.
Entries == 1..NumEntries

NoCall == [entry |-> 0, outcome |-> "none"]

\* line 51: hass.data[DOMAIN].get(config_entry_id)
Lookup(data, e) == IF e \in data THEN e ELSE 0

\* line 81 under lines 79-80: the service after an entry is unloaded
RegisteredAfterUnload(data) == FALSE

RegInit ==
    /\ Init
    /\ PureOff
    /\ OpsOff
    /\ reg = [stage |-> [e \in Entries |-> "absent"], data |-> {},
              registered |-> FALSE, restarts |-> [e \in Entries |-> 0],
              ncalls |-> 0, call |-> NoCall]

\* lines 33-36: the coordinator is built and its first refresh awaited
SetupBegin(e) ==
    /\ reg.stage[e] = "absent"
    /\ reg' = [reg EXCEPT !.stage[e] = "first_refresh"]

\* lines 36-43: the first refresh is over; when it raised the setup ends,
\* else the coordinator is stored and the platforms are forwarded
FirstRefreshDone(e, ok) ==
    /\ reg.stage[e] = "first_refresh"
    /\ reg' = IF ok
              THEN [reg EXCEPT !.stage[e] = "forwarding", !.data = @ \cup {e}]
              ELSE [reg EXCEPT !.stage[e] = "absent"]

\* lines 43-73: the platforms are set up, the service is registered
ForwardDone(e) ==
    /\ reg.stage[e] = "forwarding"
    /\ reg' = [reg EXCEPT !.stage[e] = "loaded", !.registered = TRUE]

\* line 78: the unloading of the platforms is awaited
UnloadBegin(e) ==
    /\ reg.stage[e] = "loaded"
    /\ reg' = [reg EXCEPT !.stage[e] = "unloading"]

\* lines 78-83
UnloadDone(e, unload_ok) ==
    /\ reg.stage[e] = "unloading"
    /\ reg' = IF unload_ok
              THEN [reg EXCEPT !.stage[e] = "absent", !.data = @ \ {e},
                               !.registered = RegisteredAfterUnload(reg.data \ {e})]
              ELSE [reg EXCEPT !.stage[e] = "loaded"]

\* lines 46-57: the registered service is called with an entry id; the
\* coordinator found is asked to restart, none found raises
RestartCall(e) ==
    /\ reg.registered
    /\ reg.ncalls < MaxSvcCalls
    /\ reg' = IF Lookup(reg.data, e) = 0
              THEN [reg EXCEPT !.ncalls = @ + 1,
                               !.call = [entry |-> e,
                                         outcome |-> "HomeAssistantError"]]
              ELSE [reg EXCEPT !.ncalls = @ + 1,
                               !.restarts[Lookup(reg.data, e)] = @ + 1,
                               !.call = [entry |-> e, outcome |-> "restart"]]

RegNext ==
    \/ \E e \in Entries : SetupBegin(e) /\ UNCHANGED <<vars, pureVars, ops>>
    \/ \E e \in Entries, ok \in BOOLEAN :
          FirstRefreshDone(e, ok) /\ UNCHANGED <<vars, pureVars, ops>>
    \/ \E e \in Entries : ForwardDone(e) /\ UNCHANGED <<vars, pureVars, ops>>
    \/ \E e \in Entries : UnloadBegin(e) /\ UNCHANGED <<vars, pureVars, ops>>
    \/ \E e \in Entries, ok \in BOOLEAN :
          UnloadDone(e, ok) /\ UNCHANGED <<vars, pureVars, ops>>
    \/ \E e \in Entries : RestartCall(e) /\ UNCHANGED <<vars, pureVars, ops>>

RegSpec == RegInit /\ [][RegNext]_allVars

\* ------------------------------------------------------------------ claims

\* C1: at most one HTTP exchange (login POST, data request, re-login,
\* resend) is in flight at any time, and it belongs to a task that holds the
\* lock, so the login/send/retry sequences of two callers never interleave.
C1_SingleFlight ==
    /\ Cardinality({t \in Tasks : pc[t] \in InFlight}) <= 1
    /\ (\E t \in Tasks : pc[t] \in InFlight) => locked
    /\ \A t \in Tasks : t \in woken => pc[t] = "wait_lock"

\* a caller waits for the lock while another one is in its re-login
C1_Witness ==
    \E t1, t2 \in Tasks :
        /\ pc[t1] = "relogin_post"
        /\ pc[t2] = "wait_lock"

\* C2 as stated: exactly one login POST, plus at most one per detected marker
C2_Original == loginPosts <= 1 + markerHits

\* C2 amended: the login POSTs number at most one, plus one per detected
\* marker, plus one per login POST that did not end in a 302 (answered with
\* another status, cancelled, or failed in the transport); no call makes more
\* than two; and no data request is in flight before a login got its 302.
C2_Amended ==
    /\ loginPosts <= 1 + markerHits + loginFailed + loginAborted
    /\ \A t \in Tasks : logins[t] <= 2
    /\ (\E t \in Tasks : pc[t] \in DataPcs) => login302 >= 1

\* a second caller logged in again after the first caller's login failed
C2_Witness ==
    /\ loginFailed = 1
    /\ markerHits = 0
    /\ loginPosts = 2
    /\ \E t \in Tasks : pc[t] = "send"

\* C3: a 200 response holding the login form clears the flag and starts one
\* re-login; after the re-login the request is resent once; the answer to
\* the resend ends the call and is the response returned, whatever it holds;
\* a call never sends the request more than twice.
C3_Inv ==
    \A t \in Tasks :
        /\ sends[t] <= 2
        /\ pc[t] = "relogin_post" => (~logged_in /\ sends[t] = 1)
        /\ pc[t] = "resend" => sends[t] = 2
        /\ (ret[t].kind = "response" /\ ret[t].retry) => sends[t] = 2

C3_Step ==
    \A t \in Tasks :
        /\ ( /\ pc[t] = "read_text"
             /\ resp[t].status = 200 /\ resp[t].body = "login_form"
             /\ pc'[t] # pc[t]
             /\ ret'[t].kind \notin {"CancelledError", "ClientError"} )
           => ( /\ pc'[t] = "relogin_post"
                /\ ~logged_in'
                /\ logins'[t] = logins[t] + 1
                /\ loginPosts' = loginPosts + 1
                /\ sends' = sends )
        /\ ( /\ pc[t] = "resend"
             /\ pc'[t] # pc[t]
             /\ ret'[t].kind \notin {"CancelledError", "ClientError"} )
           => ( /\ pc'[t] = "idle"
                /\ ret'[t].kind = "response"
                /\ ret'[t].retry
                /\ sends' = sends
                /\ loginPosts' = loginPosts
                /\ logged_in' = logged_in )

C3_RetryOnce == []C3_Inv /\ [][C3_Step]_vars

\* the resent request was answered with the login form again and returned
C3_Witness ==
    \E t \in Tasks :
        /\ ret[t].kind = "response"
        /\ ret[t].retry
        /\ ret[t].status = 200
        /\ ret[t].body = "login_form"
        /\ sends[t] = 2

\* C4: when _login is entered with the flag set it returns true at once (the
\* data request is the next thing sent), no login POST is made and the flag
\* stays set.
C4_Step ==
    \A t \in Tasks :
        ( /\ logged_in
          /\ pc[t] \in {"idle", "wait_lock"}
          /\ pc'[t] \notin {"idle", "wait_lock"} )
        => ( /\ pc'[t] = "send"
             /\ loginPosts' = loginPosts
             /\ logins'[t] = 0
             /\ logged_in' )

C4_LoginIdempotent == [][C4_Step]_vars

\* the second call on the client entered _login with the flag set
C4_Witness ==
    /\ calls = 2
    /\ loginPosts = 1
    /\ logged_in
    /\ \E t \in Tasks : pc[t] = "send" /\ logins[t] = 0

\* C5: as long as every login POST got its 302 and no response held the login
\* form, the client has made one login POST at most, and exactly one once a
\* data request has been sent: the first call's.
C5_OneLogin ==
    (loginFailed = 0 /\ loginAborted = 0 /\ markerHits = 0)
    => /\ loginPosts <= 1
       /\ \A t \in Tasks :
            (pc[t] \in DataPcs \/ ret[t].kind = "response")
            => (loginPosts = 1 /\ login302 = 1)

\* two calls have returned a page and only the first one logged in
C5_Witness ==
    /\ calls = 2
    /\ loginFailed = 0 /\ loginAborted = 0 /\ markerHits = 0
    /\ loginPosts = 1
    /\ \A t \in Tasks : pc[t] = "idle" /\ ret[t].kind \in {"none", "response"}
    /\ \E t \in Tasks :
         ret[t].kind = "response" /\ ret[t].read = "text" /\ logins[t] = 0

\* C6: when _login has returned false, at the start or at the re-login, the
\* call ends with ZTEModemAPIError without sending (or resending) the data
\* request, without another login POST, and with the flag false.
C6_Inv ==
    \A t \in Tasks :
        ret[t].kind = "ZTEModemAPIError"
        => /\ lastLogin[t] \in {"busy", "generic"}
           /\ ret[t].msg = "login failed" => (sends[t] = 0 /\ logins[t] = 1)
           /\ ret[t].msg = "re-login failed" => (sends[t] = 1 /\ logins[t] <= 2)
           /\ ret[t].msg \in {"login failed", "re-login failed"}

C6_Step ==
    \A t \in Tasks :
        ( /\ pc[t] \in {"login_text", "relogin_text"}
          /\ pc'[t] # pc[t]
          /\ ret'[t].kind \notin {"CancelledError", "ClientError"} )
        => ( /\ pc'[t] = "idle"
             /\ ret'[t].kind = "ZTEModemAPIError"
             /\ sends' = sends
             /\ loginPosts' = loginPosts
             /\ ~logged_in' )

C6_LoginFailureFails == []C6_Inv /\ [][C6_Step]_vars

\* one call failed at its first login, another at its re-login
C6_Witness ==
    \E t1, t2 \in Tasks :
        /\ ret[t1].kind = "ZTEModemAPIError" /\ ret[t1].msg = "login failed"
        /\ ret[t2].kind = "ZTEModemAPIError" /\ ret[t2].msg = "re-login failed"

\* C7: the flag is false on the new client, rises only in the step in which
\* a login POST is answered 302, and is false after a login POST answered
\* with any other status, whose _login call then returns false.
C7_Inv ==
    /\ calls = 0 => ~logged_in
    /\ \A t \in Tasks :
         pc[t] \in {"login_text", "relogin_text"}
         => (~logged_in /\ ~LoginReturn(resp[t].status, resp[t].body))

C7_Step ==
    /\ (~logged_in /\ logged_in')
       => /\ login302' = login302 + 1
          /\ \E t \in Tasks : pc[t] \in {"login_post", "relogin_post"}
                              /\ pc'[t] \in {"send", "resend"}
    /\ loginFailed' # loginFailed => ~logged_in'

C7_FlagOnlyOn302 == []C7_Inv /\ [][C7_Step]_vars

\* the flag is set after a rejected login POST and then an accepted one
C7_Witness ==
    /\ logged_in
    /\ loginFailed >= 1
    /\ login302 = 1

\* C8 as stated: a call that failed on the device-busy answer hands its
\* caller something else than a call that failed on another non-302 answer
C8_BusyDistinct ==
    \A t1, t2 \in Tasks :
        ( /\ ret[t1].kind = "ZTEModemAPIError" /\ lastLogin[t1] = "busy"
          /\ ret[t2].kind = "ZTEModemAPIError" /\ lastLogin[t2] = "generic" )
        => ret[t1] # ret[t2]

\* C9 as stated: whenever the caller of _make_request reads the body of the
\* response it was handed, the body is there
C9_BodyReadable ==
    \A t \in Tasks :
        ret[t].kind = "response" => ret[t].read # "ClientConnectionError"

\* C10: the flag is true only if a login POST got 302 since the flag was
\* last cleared; a cancelled call leaves the flag as it was (false during a
\* re-login), gives up the lock it held, and leaves the queue of waiters.
C10_Inv ==
    /\ logged_in => since302
    /\ \A t \in Tasks : pc[t] = "idle" => ~\E i \in 1..Len(waiters) : waiters[i] = t
    /\ (~locked /\ waiters # <<>>) => Head(waiters) \in woken

C10_Step ==
    \A t \in Tasks :
        (ret'[t].kind = "CancelledError" /\ pc[t] # "idle")
        => /\ logged_in' = logged_in
           /\ pc[t] \in InFlight => ~locked'
           /\ pc[t] \in {"relogin_post", "relogin_text"} => ~logged_in'
           /\ pc'[t] = "idle"

C10_CancelClean == []C10_Inv /\ [][C10_Step]_vars

\* a call was cancelled (during its re-login, say) and the lock is free
C10_Witness ==
    \E t \in Tasks :
        /\ ret[t].kind = "CancelledError"
        /\ logins[t] = 2
        /\ ~locked
        /\ ~logged_in
        /\ markerHits >= 1

\* the keys of the dict a routine returned (none when it returned None)
OutKeys == IF fout.type = "dict" THEN DOMAIN fout.items ELSE {}

\* a character written as its reference, the inverse of html.unescape
EscapeToken(c) ==
    CASE c = "&" -> "&amp;"
      [] c = "<" -> "&lt;"
      [] OTHER -> c
Escape(txt) == [i \in 1..Len(txt) |-> EscapeToken(txt[i])]

\* C18: get_device_info returns a record whose keys are exactly the fields
\* that have a text on the page, each value being that text (blanks at its
\* ends removed) with its character references decoded; with no such field it
\* returns None, not an empty record.
C18_DeviceFields ==
    fout # Unset =>
        LET present == {k \in DeviceFields :
                            fin.page[k].found /\ fin.page[k].text # <<>>} IN
        IF present = {} THEN fout = PyNone
        ELSE /\ fout.type = "dict"
             /\ DOMAIN fout.items = present
             /\ \A k \in present :
                  /\ \A i \in 1..Len(fout.items[k]) :
                        fout.items[k][i] \notin {"&amp;", "&lt;", "&#65;"}
                  /\ Escape(fout.items[k]) = Strip(fin.page[k].text)

\* two of the six fields are on the page, one with a character reference
C18_Witness ==
    /\ fout.type = "dict"
    /\ DOMAIN fout.items = {"carrier_name", "serial_number"}
    /\ fout.items["carrier_name"] = <<"R", "&", "D">>
    /\ fin.page["model_name"] = Text(<<>>)

\* C19: each optical value is the raw integer divided by its divisor and
\* rounded to its number of decimals: the powers to the nearest hundredth of
\* raw/10000, the voltage to the nearest ten-thousandth of raw/1000000, the
\* current and the temperature raw/1000 exactly; 1234500 gives 123.45, 12000
\* gives 12.0, 3300000 gives 3.3, 45000 gives 45.0; a variable that is not
\* on the page has no entry.
C19_OpticalScaling ==
    fout # Unset =>
        \A k \in OpticalVars :
            LET v == fin.page[k] IN
            /\ k \in OutKeys <=> v.found
            /\ (v.found /\ k \in {"rx_power", "tx_power", "voltage"})
               => 2 * Abs(fout.items[k] * 100 - v.raw) <= 100
            /\ (v.found /\ k \in {"current", "temperature"})
               => fout.items[k] = v.raw * 10
            /\ (v.found /\ k = "rx_power" /\ v.raw = 1234500)
               => fout.items[k] = 12345
            /\ (v.found /\ k = "current" /\ v.raw = 12000)
               => fout.items[k] = 120000
            /\ (v.found /\ k = "voltage" /\ v.raw = 3300000)
               => fout.items[k] = 33000
            /\ (v.found /\ k = "temperature" /\ v.raw = 45000)
               => fout.items[k] = 450000

\* the four values of the claim, on a page without the tx power
C19_Witness ==
    /\ OutKeys = {"rx_power", "current", "voltage", "temperature"}
    /\ fout.items["rx_power"] = 12345
    /\ fout.items["current"] = 120000
    /\ fout.items["voltage"] = 33000
    /\ fout.items["temperature"] = 450000

\* C20: connected and loid_state are in the result together, exactly when the
\* loid state is on the page; loid_state is the code itself, connected is
\* true for the code 1 and false for every other code.
C20_LoidState ==
    fout # Unset =>
        LET v == fin.page["loid_state"] IN
        /\ "connected" \in OutKeys <=> v.found
        /\ "loid_state" \in OutKeys <=> v.found
        /\ v.found => /\ fout.items["loid_state"] = v.raw
                      /\ v.raw = 1 => fout.items["connected"] = TRUE
                      /\ v.raw # 1 => fout.items["connected"] = FALSE

\* the code 2 is reported as not connected
C20_Witness ==
    /\ OutKeys = {"connected", "loid_state"}
    /\ fout.items["loid_state"] = 2
    /\ fout.items["connected"] = FALSE

\* ---- restart
RestartPosts(st) ==
    SelectSeq(st.log, LAMBDA q : q.req = "POST restart")

\* the harvesting GET of a restart ended with a response whose page cannot
\* start the restart: no 200, or no token, or no code on it
HarvestUseless(st) ==
    /\ Len(st.rets) >= 1
    /\ st.rets[1].kind = "response"
    /\ \/ st.rets[1].status # 200
       \/ /\ ~IsExpired(st.rets[1])
          /\ ~(st.pages[1].token.found /\ st.pages[1].codes # <<>>)

\* C11: when the harvesting GET of a restart returns a status other than 200,
\* or a page without the session token or without any error-type code, the
\* restart returns false and no restart POST is sent.
C11_AbortReturnsFalse ==
    HarvestUseless(ops["restart"]) =>
        /\ ops["restart"].phase = "done"
        /\ ops["restart"].out.kind = "return"
        /\ ops["restart"].out.value = PyBool(FALSE)
        /\ RestartPosts(ops["restart"]) = <<>>

\* positions in the log of the requests of one name
LogAt(st, name) == {i \in 1..Len(st.log) : st.log[i].req = name}

\* C12: the restart POST is sent only after the harvesting GET of the same
\* restart returned 200 with a session token and an error-type code, it
\* carries that token and the decoded last code of the page, and restart
\* returns true exactly when the final POST response has status 200, whatever
\* its body.
C12_TwoPhase ==
    LET st == ops["restart"] IN
    /\ RestartPosts(st) # <<>> =>
          /\ Len(st.rets) >= 1
          /\ st.rets[1].kind = "response"
          /\ st.rets[1].status = 200
          /\ st.pages[1].token.found
          /\ st.pages[1].codes # <<>>
          /\ \A i \in LogAt(st, "GET restart"), j \in LogAt(st, "POST restart") :
                i < j
          /\ \A j \in LogAt(st, "POST restart") :
                /\ st.log[j].data.token = st.pages[1].token.text
                /\ st.log[j].data.etype =
                      ParseErrorType(st.pages[1].codes[Len(st.pages[1].codes)])
    /\ (st.phase = "done" /\ Len(st.rets) = 2 /\ st.rets[2].kind = "response") =>
          st.out.value = PyBool(st.rets[2].status = 200)
    /\ (st.phase = "done" /\ st.out.value = PyBool(TRUE)) =>
          /\ Len(st.rets) = 2
          /\ st.rets[2].kind = "response"
          /\ st.rets[2].status = 200

\* a restart that went through: the page held two codes, the last one escaped,
\* and the POST came back 200 unread after a re-login
C12_Witness ==
    LET st == ops["restart"] IN
    /\ st.phase = "done"
    /\ st.out.value = PyBool(TRUE)
    /\ Len(st.pages[1].codes) = 2
    /\ st.acc.payload = [token |-> <<"T">>, etype |-> <<"3", "3">>]
    /\ st.rets[2].retry
    /\ st.rets[2].read = "ClientConnectionError"

\* ---- refresh
\* C13: every snapshot returned by the refresh has a mapping as optical_info
\* and a list as lan_info; a null result of the client is replaced by the
\* empty mapping or the empty list, another result is passed on as it is.
C13_SnapshotShape ==
    LET st == ops["refresh"] IN
    (st.phase = "done" /\ st.out.kind = "return") =>
        /\ st.out.value.type = "dict"
        /\ DOMAIN st.out.value.items = {"optical_info", "lan_info"}
        /\ st.out.value.items.optical_info.type = "dict"
        /\ st.out.value.items.lan_info.type = "list"
        /\ st.out.value.items.optical_info =
              IF st.acc.optical = PyNone THEN PyDict(<<>>) ELSE st.acc.optical
        /\ st.out.value.items.lan_info =
              IF st.acc.lan = PyNone THEN PyList(<<>>) ELSE st.acc.lan

\* a snapshot made of a null optical result and a LAN result with a port
C13_Witness ==
    LET st == ops["refresh"] IN
    /\ st.phase = "done"
    /\ st.out.kind = "return"
    /\ st.acc.optical = PyNone
    /\ st.acc.lan.type = "list"
    /\ Len(st.acc.lan.items) = 1

\* C14: when a call of the client fails during the refresh, the refresh ends
\* by raising that failure and returns no snapshot; when the optical fetch is
\* the one that fails, the LAN page is never requested.
C14_FailureNoSnapshot ==
    LET st == ops["refresh"] IN
    /\ \A i \in 1..Len(st.rets) :
          ExcOf(st.rets[i]) # "none" =>
             /\ i = Len(st.rets)
             /\ st.phase = "done"
             /\ st.out.kind = "raise"
             /\ st.out.exc = ExcOf(st.rets[i])
             /\ st.out.value = Unset
    /\ (Len(st.rets) >= 1 /\ ExcOf(st.rets[1]) # "none") =>
          /\ LogAt(st, "GET lan") = {}
          /\ st.acc.lan = Unset

\* the optical fetch went through and the re-login of the LAN fetch failed
C14_Witness ==
    LET st == ops["refresh"] IN
    /\ st.phase = "done"
    /\ st.out.kind = "raise"
    /\ Len(st.rets) = 2
    /\ st.acc.optical.type = "dict"
    /\ st.rets[2] = AuthError("relogin")

\* C15: the refresh and the restart work on clients of their own: a step of
\* one operation changes neither the flag nor the lock of another, and an
\* operation takes its lock whoever else holds one, so both can have an
\* exchange in flight at the same time.
C15_Step ==
    \A p, q \in Procs :
        (p # q /\ ops'[p] # ops[p]) =>
            /\ ops'[q].flag = ops[q].flag
            /\ ops'[q].lock = ops[q].lock

\* C15, as a property of every step: no operation touches the flag or the
\* lock of another operation's client.
C15_Independent == [][C15_Step]_allVars

\* refresh and restart both inside _make_request with a request on the wire,
\* the refresh logged in and the restart not
C15_Witness ==
    /\ ops["refresh"].pc \in InFlight
    /\ ops["restart"].pc \in InFlight
    /\ ops["refresh"].lock /\ ops["restart"].lock
    /\ ops["refresh"].flag /\ ~ops["restart"].flag

\* ---- statuses other than 200
\* request number i of the operation ended with a response that is not a 200
NonOk(st, i) ==
    /\ Len(st.rets) >= i
    /\ st.rets[i].kind = "response"
    /\ st.rets[i].status # 200

C16_Inv ==
    /\ NonOk(ops["setup"], 1) =>
          /\ ops["setup"].acc.device = PyNone
          /\ ops["setup"].out.exc = "CannotConnect"
    /\ NonOk(ops["refresh"], 1) =>
          /\ ops["refresh"].acc.optical = PyNone
          /\ ~(ops["refresh"].phase = "done" /\ Len(ops["refresh"].rets) = 1)
    /\ NonOk(ops["refresh"], 2) =>
          /\ ops["refresh"].acc.lan = PyNone
          /\ ops["refresh"].out.kind = "return"
    /\ \A i \in 1..2 :
          NonOk(ops["restart"], i) =>
             /\ Len(ops["restart"].rets) = i
             /\ ops["restart"].out.kind = "return"
             /\ ops["restart"].out.value = PyBool(FALSE)

C16_Step ==
    \A p \in Procs :
        (/\ Len(ops'[p].rets) = Len(ops[p].rets) + 1
         /\ NonOk(ops'[p], Len(ops'[p].rets)))
        => ops'[p].flag = ops[p].flag

\* C16: a final response with a status other than 200 makes get_device_info,
\* get_optical_info and get_lan_info return null and restart_device return
\* false; nothing is raised and the flag stays as it was.
C16_NonOkNull == []C16_Inv /\ [][C16_Step]_allVars

\* a refresh on a logged-in client got 500 for both pages and still returned
C16_Witness ==
    /\ NonOk(ops["refresh"], 1)
    /\ NonOk(ops["refresh"], 2)
    /\ ops["refresh"].flag
    /\ ops["refresh"].out.kind = "return"
    /\ ops["restart"].out.value = PyBool(FALSE)
    /\ NonOk(ops["restart"], 2)

\* ---- failures of the session as the host shows them
\* the operation ended on a failed login or re-login of its client
AuthFailed(st) ==
    /\ st.phase = "done"
    /\ st.rets # <<>>
    /\ st.rets[Len(st.rets)].kind = "ZTEModemAPIError"

\* C17: a login failure raised by the client is caught and reported: the setup
\* form shows "cannot_connect", the restart service call ends in a raised
\* error.
C17_AuthFailureReported ==
    /\ AuthFailed(ops["setup"]) => ops["setup"].out.shown = "cannot_connect"
    /\ AuthFailed(ops["restart"]) =>
          ops["restart"].out.shown \in {"HomeAssistantError", "ZTEModemAPIError"}

\* ---- error-type decoding
\* the decoding as described: an escape is a backslash, an x and two hex
\* digits, and becomes the decimal value of the digits; any other character,
\* the characters of a malformed escape included, is copied
RECURSIVE Decoded(_, _)
Decoded(str, i) ==
    IF i > Len(str) THEN <<>>
    ELSE IF /\ i + 3 <= Len(str)
            /\ str[i] = "\\" /\ str[i + 1] = "x"
            /\ IsHexDigit(str[i + 2]) /\ IsHexDigit(str[i + 3])
    THEN DecStr(16 * HexDigitVal(str[i + 2]) + HexDigitVal(str[i + 3]))
         \o Decoded(str, i + 4)
    ELSE <<str[i]>> \o Decoded(str, i + 1)

\* C21: for every string, _parse_error_type replaces each backslash-x followed
\* by two hex digits with the decimal value of the digits, passes an escape
\* whose digits are not hex through unchanged, and copies every other
\* character.
C21_Decoding ==
    fout # Unset => fout = PyStr(Decoded(fin.arg, 1))

\* ---- LAN tables
\* positions of the cells of one kind in a table
CellsAt(table, kind) == {i \in 1..Len(table) : table[i].kind = kind}
Lowest(S) == CHOOSE i \in S : \A j \in S : i <= j
Highest(S) == CHOOSE i \in S : \A j \in S : i >= j

\* the record of a table is as described
PortAsDescribed(rec, table) ==
    LET pairs == CellsAt(table, "pair")
        nums == CellsAt(table, "num")
    IN /\ DOMAIN rec # {}
       /\ ("rx_packets" \in DOMAIN rec) = (pairs # {})
       /\ ("rx_bytes" \in DOMAIN rec) = (pairs # {})
       /\ pairs # {} =>
             /\ rec.rx_packets = table[Lowest(pairs)].a
             /\ rec.rx_bytes = table[Lowest(pairs)].b
       /\ ("tx_packets" \in DOMAIN rec) = (Cardinality(pairs) >= 2)
       /\ ("tx_bytes" \in DOMAIN rec) = (Cardinality(pairs) >= 2)
       /\ Cardinality(pairs) >= 2 =>
             LET second == Lowest(pairs \ {Lowest(pairs)}) IN
             /\ rec.tx_packets = table[second].a
             /\ rec.tx_bytes = table[second].b
       /\ ("error_frames" \in DOMAIN rec) = (nums # {})
       /\ nums # {} => rec.error_frames = table[Highest(nums)].a

\* C22: in each LAN table the first packets/bytes pair is rx, the second one,
\* if there is one, is tx, and the last lone number is error_frames; a table
\* with no field gives no record, and a page with no record gives null.
C22_LanTables ==
    fout # Unset =>
        LET kept == SelectSeq(fin.page,
                              LAMBDA t : \E i \in 1..Len(t) : t[i].kind # "other")
        IN IF kept = <<>> THEN fout = PyNone
           ELSE /\ fout.type = "list"
                /\ Len(fout.items) = Len(kept)
                /\ \A i \in 1..Len(kept) : PortAsDescribed(fout.items[i], kept[i])

\* the table of the description: 100/2000, then 50/900, then a lone 3
C22_Witness ==
    /\ fin.page = << <<PairCell(100, 2000), PairCell(50, 900), NumCell(3)>> >>
    /\ fout = PyList(<< [rx_packets |-> 100, rx_bytes |-> 2000,
                         tx_packets |-> 50, tx_bytes |-> 900,
                         error_frames |-> 3] >>)

\* ---- one client per operation
\* C23: every run of the refresh and of the restart starts on a new client
\* whose flag is false, whatever the client of the run before ended with, so
\* its first exchange is a login POST; in a refresh the LAN page is requested
\* only after the optical fetch is over, and when no login form is met the
\* two fetches use one login POST.
C23_FreshSequential ==
    /\ \A p \in {"refresh", "restart"} :
          /\ ops[p].phase = "start" => (~ops[p].flag /\ ~ops[p].lock)
          /\ ops[p].log # <<>> => ops[p].log[1] = LoginReq
    /\ LET st == ops["refresh"] IN
          /\ LogAt(st, "GET lan") # {} =>
                /\ Len(st.rets) >= 1
                /\ ExcOf(st.rets[1]) = "none"
                /\ \A i \in LogAt(st, "GET optical"), j \in LogAt(st, "GET lan") :
                      i < j
          /\ Cardinality(LogAt(st, "POST login")) <= 1 + st.markers
          /\ (st.phase = "done" /\ st.out.kind = "return" /\ st.markers = 0) =>
                Cardinality(LogAt(st, "POST login")) = 1

\* the second refresh, after one that ended logged in: it logged in again,
\* once, and fetched both pages
C23_Witness ==
    LET st == ops["refresh"] IN
    /\ st.round = 2
    /\ st.prevFlag
    /\ st.phase = "done"
    /\ st.out.kind = "return"
    /\ st.markers = 0
    /\ st.log = <<LoginReq, Req("GET optical", NoData), Req("GET lan", NoData)>>
    /\ st.acc.optical.type = "dict"
    /\ st.acc.lan.type = "list"

\* ---- the flag and the lock of one client
C24_Inv ==
    \A t \in Tasks :
        pc[t] \in {"send", "resend"} =>
            /\ logged_in
            /\ locked
            /\ \A u \in Tasks \ {t} : pc[u] \notin InFlight

C24_Step ==
    logged_in' # logged_in =>
        /\ locked /\ locked'
        /\ \E t \in Tasks : pc[t] \in InFlight /\ pc'[t] \in InFlight

\* C24: a request other than the login POST is on the wire only while the
\* flag is true and its sender holds the lock, and the flag changes only in
\* steps of the caller holding the lock.
C24_GuardedSend == []C24_Inv /\ [][C24_Step]_allVars

\* a resent request on the wire after a re-login, another caller waiting
C24_Witness ==
    \E t, u \in Tasks :
        /\ pc[t] = "resend"
        /\ pc[u] = "wait_lock"
        /\ logged_in
        /\ markerHits = 1

\* ---- termination
C25_Inv ==
    /\ \A t \in Tasks : logins[t] <= 2 /\ sends[t] <= 2
    /\ (\E t \in Tasks : pc[t] = "wait_lock") =>
          \/ \E u \in Tasks : pc[u] \in InFlight
          \/ \E u \in woken : pc[u] = "wait_lock"

C25_Step ==
    \A t \in Tasks :
        (pc[t] \in InFlight /\ pc'[t] = "idle") => (locked /\ ~locked')

\* C25: with a transport that answers every call, a call makes at most two
\* login POSTs and two sends of its request and then ends; every way out
\* releases the lock, so a caller waiting for the lock gets past the wait and
\* no state with waiters and nobody to wake them is reached.
C25_Terminates ==
    /\ []C25_Inv
    /\ [][C25_Step]_allVars
    /\ \A t \in Tasks : (pc[t] = "wait_lock") ~> (pc[t] # "wait_lock")
    /\ \A t \in Tasks : (pc[t] \in InFlight) ~> (pc[t] = "idle")

\* a caller waits for the lock while the holder is at its second login POST
C25_Witness ==
    \E t, u \in Tasks :
        /\ pc[t] = "relogin_post"
        /\ logins[t] = 2
        /\ pc[u] = "wait_lock"

\* ---- the restart service
Loaded == {e \in Entries : reg.stage[e] = "loaded"}

\* C26: whenever a config entry is loaded the restart service is registered;
\* a call naming a loaded entry asks that entry's coordinator to restart, a
\* call naming an entry that is not stored raises and restarts nothing.
C26_ServiceRegistered ==
    Loaded # {} => reg.registered

====
